---------------------------- MODULE Spec2Model ----------------------------
(* Model of test_sidebar_submenu_status (src/test-ui-analysis.py): one     *)
(* sequential run of the smoke check.  The state is the position in the    *)
(* function, its local variables, the page the browser shows, the log of   *)
(* driver calls made and the lines printed.                                *)
EXTENDS Integers, Sequences, FiniteSets, TLC

VARIABLES pc, menu_idx, page_idx, i, dom, count, text, exc, propagated,
          calls, out, detail_route, browser

vars == <<pc, menu_idx, page_idx, i, dom, count, text, exc, propagated,
          calls, out, detail_route, browser>>

-----------------------------------------------------------------------------
(* Bounds of the explored inputs *)
MaxSubmenuItems == 3
MaxElements == 6
MaxErrors == 4
MaxLabelLen == 32
NumSeeds == 4

(* Literals of the script *)
TruncLen == 30
TopElements == 5
TopErrors == 3

Min(a, b) == IF a <= b THEN a ELSE b

-----------------------------------------------------------------------------
(* Python values.  A str is a sequence of character codes; a value that    *)
(* may be None is a record, so that None and '' stay different.            *)
None == [isNone |-> TRUE, s |-> <<>>]
Str(s) == [isNone |-> FALSE, s |-> s]

(* Python truthiness of an optional str: None and '' are falsy *)
Truthy(v) == ~v.isNone /\ Len(v.s) > 0

(* a or b *)
Or(a, b) == IF Truthy(a) THEN a ELSE b

(* A str of n characters whose characters differ along the string *)
Chars(n) == [k \in 1..n |-> 97 + (k % 7)]

Unknown == <<85, 110, 107, 110, 111, 119, 110>>

(* text[:30] *)
Take(s, n) == SubSeq(s, 1, Min(n, Len(s)))

(* Variant: the label printed whole *)
Truncate_None(s) == s

Truncate(s) == Take(s, TruncLen)

-----------------------------------------------------------------------------
(* The literal lists of the script *)
menu_items == <<"menu-home", "menu-calendar", "menu-projects",
                "menu-planning", "menu-feedback">>

pages_to_check == <<"/dashboard", "/projects", "/calendar", "/planning",
                    "/feedback">>

SubmenuEntry == "menu-projects"

-----------------------------------------------------------------------------
(* The application under test.  A page is what the driver finds after a    *)
(* navigation: the first h1, the elements matching the interactive         *)
(* selector and the elements matching the error selector.                  *)
ElementKinds == <<
  [visible |-> TRUE,  text |-> Str(Chars(2)), aria |-> None,
   placeholder |-> None, tag |-> "button"],
  [visible |-> FALSE, text |-> Str(Chars(3)), aria |-> None,
   placeholder |-> None, tag |-> "button"],
  [visible |-> TRUE,  text |-> Str(<<>>), aria |-> Str(Chars(TruncLen + 1)),
   placeholder |-> None, tag |-> "button"],
  [visible |-> TRUE,  text |-> None, aria |-> None,
   placeholder |-> Str(Chars(MaxLabelLen)), tag |-> "input"],
  [visible |-> TRUE,  text |-> None, aria |-> None,
   placeholder |-> None, tag |-> "select"],
  [visible |-> TRUE,  text |-> Str(<<>>), aria |-> Str(<<>>),
   placeholder |-> Str(<<>>), tag |-> "textarea"],
  [visible |-> TRUE,  text |-> Str(Chars(TruncLen)), aria |-> Str(Chars(1)),
   placeholder |-> None, tag |-> "button"],
  [visible |-> TRUE,  text |-> None, aria |-> Str(Chars(TruncLen - 1)),
   placeholder |-> Str(Chars(2)), tag |-> "input"] >>

ErrorTexts == << Str(Chars(5)), Str(<<>>), None >>

TitleKinds == << [visible |-> TRUE,  text |-> Str(Chars(4))],
                 [visible |-> FALSE, text |-> None],
                 [visible |-> TRUE,  text |-> Str(<<>>)],
                 [visible |-> TRUE,  text |-> None] >>

(* The page with n interactive elements and m error elements, their kinds  *)
(* taken round-robin from the tables above starting at seed s.             *)
Page(n, s, m) ==
  [title    |-> TitleKinds[(s % Len(TitleKinds)) + 1],
   elements |-> [k \in 1..n |->
                   ElementKinds[((k - 1 + 2 * s) % Len(ElementKinds)) + 1]],
   errors   |-> [k \in 1..m |-> ErrorTexts[((k + s) % Len(ErrorTexts)) + 1]]]

NoPage == Page(0, 1, 0)

RichPages == { Page(n, s, m) : n \in 0..MaxElements, s \in 0..(NumSeeds - 1),
                               m \in 0..MaxErrors }

SimplePages == { Page(0, 1, 0), Page(1, 0, 1) }

PlainPage == Page(1, 0, 0)

(* What a navigation to route r may load.  detail_route = 0: every route   *)
(* loads a simple page and the root page's checks take every outcome;      *)
(* detail_route = r: route r loads any rich page, the rest is fixed.       *)
Pages(r) == IF detail_route = 0 THEN SimplePages
            ELSE IF r = detail_route THEN RichPages ELSE {PlainPage}

VisibleOutcomes == IF detail_route = 0 THEN BOOLEAN ELSE {TRUE}

SubmenuCounts == IF detail_route = 0 THEN 0..MaxSubmenuItems
                 ELSE {MaxSubmenuItems}

-----------------------------------------------------------------------------
(* Log entries: the driver calls (and sleeps) made, the lines printed *)
Call(op, target, idx) ==
  [op |-> op, target |-> target, route |-> page_idx, idx |-> idx,
   raised |-> FALSE]

CallAt(op, target, idx, r) ==
  [op |-> op, target |-> target, route |-> r, idx |-> idx, raised |-> FALSE]

(* The calls cs, the last of which raised *)
MarkRaised(cs) ==
  [k \in 1..Len(cs) |-> IF k = Len(cs) THEN [cs[k] EXCEPT !.raised = TRUE]
                                        ELSE cs[k]]

Line(k, idx, n, id, s) ==
  [k |-> k, route |-> page_idx, idx |-> idx, n |-> n, id |-> id, s |-> s]

LineAt(k, r) ==
  [k |-> k, route |-> r, idx |-> 0, n |-> 0, id |-> "", s |-> None]

element_count == Len(dom.elements)
error_count == Len(dom.errors)

-----------------------------------------------------------------------------
(* The decisions of the script *)

(* Variant: a hidden sidebar ends the run *)
AfterSidebar_Abort(visible) == IF visible THEN "menu" ELSE "finally"

(* line 20: the menu checks are nested under the sidebar being visible *)
AfterSidebar(visible) == IF visible THEN "menu" ELSE "pages"

(* Variant: the submenu test runs for every visible entry *)
AfterMenuQuery_AnyEntry(menu_id, visible) ==
  IF visible THEN "click" ELSE "menu"

(* Variant: the submenu test runs for the projects entry, visible or not *)
AfterMenuQuery_Unseen(menu_id, visible) ==
  IF menu_id = "menu-projects" THEN "click" ELSE "menu"

(* lines 34-38: the submenu test runs for a visible projects button *)
AfterMenuQuery(menu_id, visible) ==
  IF visible /\ menu_id = SubmenuEntry THEN "click" ELSE "menu"

(* Variant: count <= 1 *)
EmptyFlagged_OffByOne(c) == c <= 1

(* line 53 *)
EmptyFlagged(c) == c = 0

(* Variant: element_count <= 1 *)
NoElementsFlagged_OffByOne(n) == n <= 1

(* line 90 *)
NoElementsFlagged(n) == n = 0

(* Variant: range(element_count) *)
ReportedElements_All(n) == n

(* line 94: range(min(5, element_count)) *)
ReportedElements(n) == Min(TopElements, n)

(* Variant: range(error_count) *)
ReportedErrors_All(m) == m

(* line 106: range(min(3, error_count)) *)
ReportedErrors(m) == Min(TopErrors, m)

(* line 97: text_content() or aria-label or placeholder or 'Unknown' *)
ResolveLabel(el) == Or(Or(Or(el.text, el.aria), el.placeholder), Str(Unknown))

(* line 97: the driver calls the short-circuit evaluation makes *)
LabelCalls(el) ==
  <<Call("text_content", "interactive", i)>>
  \o (IF Truthy(el.text) THEN <<>>
      ELSE <<Call("get_attribute", "aria-label", i)>>
           \o (IF Truthy(el.aria) THEN <<>>
               ELSE <<Call("get_attribute", "placeholder", i)>>))

(* lines 111-112: a driver call raised inside the try block *)
Fail(cs, ls) ==
  /\ calls' = calls \o MarkRaised(cs)
  /\ out' = out \o ls
  /\ exc' = "driver"
  /\ pc' = "except"
  /\ UNCHANGED <<menu_idx, i, dom, count, text, propagated, detail_route, browser>>

(* lines 9-11: a driver call raised outside the try block: the exception   *)
(* leaves the function                                                     *)
Escape(c) ==
  /\ calls' = calls \o MarkRaised(<<c>>)
  /\ exc' = "driver"
  /\ propagated' = TRUE
  /\ pc' = "exit"
  /\ UNCHANGED <<menu_idx, page_idx, i, dom, count, text, out, detail_route, browser>>

Step(c, next) ==
  /\ calls' = Append(calls, c)
  /\ pc' = next
  /\ UNCHANGED <<menu_idx, page_idx, i, dom, count, text, exc, propagated,
                 out, detail_route, browser>>

-----------------------------------------------------------------------------
Init ==
  /\ pc = "launch"
  /\ menu_idx = 1
  /\ page_idx = 0
  /\ i = 0
  /\ dom = NoPage
  /\ count = -1
  /\ text = None
  /\ exc = "none"
  /\ propagated = FALSE
  /\ calls = <<>>
  /\ out = <<>>
  /\ detail_route \in 0..Len(pages_to_check)
  /\ browser = "none"

(* line 9 *)
Launch ==
  /\ pc = "launch"
  /\ \/ /\ calls' = Append(calls, Call("launch", "chromium", 0))
        /\ browser' = "open"
        /\ pc' = "new_context"
        /\ UNCHANGED <<menu_idx, page_idx, i, dom, count, text, exc,
                       propagated, out, detail_route>>
     \/ Escape(Call("launch", "chromium", 0))

(* line 10 *)
NewContext ==
  /\ pc = "new_context"
  /\ \/ Step(Call("new_context", "browser", 0), "new_page")
     \/ Escape(Call("new_context", "browser", 0))

(* line 11 *)
NewPage ==
  /\ pc = "new_page"
  /\ \/ Step(Call("new_page", "context", 0), "goto_root")
     \/ Escape(Call("new_page", "context", 0))

(* lines 15-16 *)
GotoRoot ==
  /\ pc = "goto_root"
  /\ \/ /\ calls' = Append(calls, Call("goto", "/", 0))
        /\ out' = Append(out, Line("loaded", 0, 0, "/", None))
        /\ pc' = "sidebar"
        /\ UNCHANGED <<menu_idx, page_idx, i, dom, count, text, exc,
                       propagated, detail_route, browser>>
     \/ /\ Fail(<<Call("goto", "/", 0)>>, <<>>)
        /\ UNCHANGED page_idx

(* lines 19-21, 60-61 *)
Sidebar ==
  /\ pc = "sidebar"
  /\ \/ \E visible \in VisibleOutcomes :
          /\ calls' = Append(calls, Call("is_visible", "sidebar", 0))
          /\ out' = Append(out, Line(IF visible THEN "sidebar_shown"
                                     ELSE "sidebar_hidden", 0, 0, "sidebar", None))
          /\ pc' = AfterSidebar(visible)
          /\ UNCHANGED <<menu_idx, page_idx, i, dom, count, text, exc,
                         propagated, detail_route, browser>>
     \/ /\ Fail(<<Call("is_visible", "sidebar", 0)>>, <<>>)
        /\ UNCHANGED page_idx

(* lines 32-35, 58-59: one iteration of the menu loop up to the projects test *)
MenuItem ==
  /\ pc = "menu"
  /\ menu_idx <= Len(menu_items)
  /\ LET menu_id == menu_items[menu_idx] IN
     \/ \E visible \in VisibleOutcomes :
          /\ calls' = Append(calls, Call("is_visible", menu_id, menu_idx))
          /\ out' = Append(out, Line(IF visible THEN "menu_found"
                                     ELSE "menu_missing", menu_idx, 0, menu_id, None))
          /\ pc' = AfterMenuQuery(menu_id, visible)
          /\ menu_idx' = IF AfterMenuQuery(menu_id, visible) = "menu"
                         THEN menu_idx + 1 ELSE menu_idx
          /\ UNCHANGED <<page_idx, i, dom, count, text, exc, propagated,
                         detail_route, browser>>
     \/ /\ Fail(<<Call("is_visible", menu_id, menu_idx)>>, <<>>)
        /\ UNCHANGED page_idx

(* line 32: the menu list is exhausted *)
MenuDone ==
  /\ pc = "menu"
  /\ menu_idx > Len(menu_items)
  /\ pc' = "pages"
  /\ UNCHANGED <<menu_idx, page_idx, i, dom, count, text, exc, propagated,
                 calls, out, detail_route, browser>>

(* lines 39-40 *)
Click ==
  /\ pc = "click"
  /\ LET menu_id == menu_items[menu_idx]
         said == Line("clicking", menu_idx, 0, menu_id, None) IN
     \/ /\ calls' = Append(calls, Call("click", menu_id, menu_idx))
        /\ out' = Append(out, said)
        /\ pc' = "submenu"
        /\ UNCHANGED <<menu_idx, page_idx, i, dom, count, text, exc,
                       propagated, detail_route, browser>>
     \/ /\ Fail(<<Call("click", menu_id, menu_idx)>>, <<said>>)
        /\ UNCHANGED page_idx

(* lines 41-46, 56-57 *)
Submenu ==
  /\ pc = "submenu"
  /\ LET made == <<Call("sleep", "1", menu_idx),
                   Call("is_visible", "sidebar-submenu", menu_idx)>> IN
     \/ \E visible \in VisibleOutcomes :
          /\ calls' = calls \o made
          /\ out' = Append(out, Line(IF visible THEN "submenu_shown"
                                     ELSE "submenu_hidden", menu_idx, 0,
                                     "sidebar-submenu", None))
          /\ pc' = IF visible THEN "submenu_items" ELSE "menu"
          /\ menu_idx' = IF visible THEN menu_idx ELSE menu_idx + 1
          /\ UNCHANGED <<page_idx, i, dom, count, text, exc, propagated,
                         detail_route, browser>>
     \/ /\ Fail(made, <<>>)
        /\ UNCHANGED page_idx

(* lines 49-54 *)
SubmenuItems ==
  /\ pc = "submenu_items"
  /\ LET made == Call("count", "menu-item-", menu_idx) IN
     \/ \E c \in SubmenuCounts :
          /\ calls' = Append(calls, made)
          /\ count' = c
          /\ out' = out \o <<Line("submenu_count", menu_idx, c, "sidebar-submenu", None)>>
                        \o (IF EmptyFlagged(c)
                            THEN <<Line("submenu_empty", menu_idx, 0, "sidebar-submenu", None)>>
                            ELSE <<>>)
          /\ menu_idx' = menu_idx + 1
          /\ pc' = "menu"
          /\ UNCHANGED <<page_idx, i, dom, text, exc, propagated, detail_route, browser>>
     \/ /\ Fail(<<made>>, <<>>)
        /\ UNCHANGED page_idx

-----------------------------------------------------------------------------
(* lines 72-75: the next route: header line, navigation, settle delay *)
Goto ==
  /\ pc = "pages"
  /\ page_idx < Len(pages_to_check)
  /\ LET r == page_idx + 1
         path == pages_to_check[r]
         said == [LineAt("page_header", r) EXCEPT !.id = path] IN
     /\ page_idx' = r
     /\ \/ \E loaded \in Pages(r) :
             /\ calls' = calls \o <<CallAt("goto", path, 0, r),
                                    CallAt("sleep", "1", 0, r)>>
             /\ out' = Append(out, said)
             /\ dom' = loaded
             /\ pc' = "title"
             /\ UNCHANGED <<menu_idx, i, count, text, exc, propagated,
                            detail_route, browser>>
        \/ Fail(<<CallAt("goto", path, 0, r)>>, <<said>>)

(* line 72: the route list is exhausted, the try block ends *)
PagesDone ==
  /\ pc = "pages"
  /\ page_idx >= Len(pages_to_check)
  /\ pc' = "finally"
  /\ UNCHANGED <<menu_idx, page_idx, i, dom, count, text, exc, propagated,
                 calls, out, detail_route, browser>>

(* lines 78-79, 82-83 *)
Title ==
  /\ pc = "title"
  /\ LET made == Call("is_visible", "h1", 0) IN
     \/ /\ calls' = Append(calls, made)
        /\ out' = IF dom.title.visible THEN out
                  ELSE Append(out, Line("title_missing", 0, 0, "h1", None))
        /\ pc' = IF dom.title.visible THEN "title_text" ELSE "interactive"
        /\ UNCHANGED <<menu_idx, page_idx, i, dom, count, text, exc,
                       propagated, detail_route, browser>>
     \/ /\ Fail(<<made>>, <<>>)
        /\ UNCHANGED page_idx

(* lines 80-81 *)
TitleText ==
  /\ pc = "title_text"
  /\ LET made == Call("text_content", "h1", 0) IN
     \/ /\ calls' = Append(calls, made)
        /\ out' = Append(out, Line("title", 0, 0, "h1", dom.title.text))
        /\ pc' = "interactive"
        /\ UNCHANGED <<menu_idx, page_idx, i, dom, count, text, exc,
                       propagated, detail_route, browser>>
     \/ /\ Fail(<<made>>, <<>>)
        /\ UNCHANGED page_idx

(* lines 86-92 *)
Interactive ==
  /\ pc = "interactive"
  /\ LET made == Call("count", "interactive", 0) IN
     \/ /\ calls' = Append(calls, made)
        /\ out' = out \o <<Line("element_count", 0, element_count, "", None)>>
                      \o (IF NoElementsFlagged(element_count)
                          THEN <<Line("no_elements", 0, 0, "", None)>>
                          ELSE <<>>)
        /\ pc' = IF element_count = 0 THEN "errors" ELSE "element"
        /\ i' = 0
        /\ UNCHANGED <<menu_idx, page_idx, dom, count, text, exc, propagated,
                       detail_route, browser>>
     \/ /\ Fail(<<made>>, <<>>)
        /\ UNCHANGED page_idx

(* lines 94-96: the next of the first elements, skipped unless visible *)
ElementVisible ==
  /\ pc = "element"
  /\ i < ReportedElements(element_count)
  /\ LET made == Call("is_visible", "interactive", i) IN
     \/ /\ calls' = Append(calls, made)
        /\ pc' = IF dom.elements[i + 1].visible THEN "label" ELSE "element"
        /\ i' = IF dom.elements[i + 1].visible THEN i ELSE i + 1
        /\ UNCHANGED <<menu_idx, page_idx, dom, count, text, exc, propagated,
                       out, detail_route, browser>>
     \/ /\ Fail(<<made>>, <<>>)
        /\ UNCHANGED page_idx

(* line 94: the range is exhausted *)
ElementsDone ==
  /\ pc = "element"
  /\ i >= ReportedElements(element_count)
  /\ pc' = "errors"
  /\ UNCHANGED <<menu_idx, page_idx, i, dom, count, text, exc, propagated,
                 calls, out, detail_route, browser>>

(* line 97 *)
Label ==
  /\ pc = "label"
  /\ LET el == dom.elements[i + 1] IN
     \/ /\ calls' = calls \o LabelCalls(el)
        /\ text' = ResolveLabel(el)
        /\ pc' = "tag"
        /\ UNCHANGED <<menu_idx, page_idx, i, dom, count, exc, propagated,
                       out, detail_route, browser>>
     \/ \E k \in 1..Len(LabelCalls(el)) :
          /\ Fail(SubSeq(LabelCalls(el), 1, k), <<>>)
          /\ UNCHANGED page_idx

(* lines 98-99: text[:30] raises TypeError when text is None *)
Tag ==
  /\ pc = "tag"
  /\ LET el == dom.elements[i + 1]
         made == Call("evaluate", "tagName", i) IN
     \/ /\ calls' = Append(calls, made)
        /\ IF text.isNone
           THEN /\ exc' = "TypeError"
                /\ pc' = "except"
                /\ UNCHANGED <<out, i>>
           ELSE /\ out' = Append(out, Line("element", i, 0, el.tag,
                                           Str(Truncate(text.s))))
                /\ i' = i + 1
                /\ pc' = "element"
                /\ UNCHANGED exc
        /\ UNCHANGED <<menu_idx, page_idx, dom, count, text, propagated,
                       detail_route, browser>>
     \/ /\ Fail(<<made>>, <<>>)
        /\ UNCHANGED page_idx

(* lines 102-105 *)
Errors ==
  /\ pc = "errors"
  /\ LET made == Call("count", "error", 0) IN
     \/ /\ calls' = Append(calls, made)
        /\ out' = IF error_count > 0
                  THEN Append(out, Line("error_header", 0, error_count, "", None))
                  ELSE out
        /\ pc' = IF error_count > 0 THEN "error_text" ELSE "pages"
        /\ i' = 0
        /\ UNCHANGED <<menu_idx, page_idx, dom, count, text, exc, propagated,
                       detail_route, browser>>
     \/ /\ Fail(<<made>>, <<>>)
        /\ UNCHANGED page_idx

(* lines 106-109: the text of the next of the first matches, if not empty *)
ErrorText ==
  /\ pc = "error_text"
  /\ i < ReportedErrors(error_count)
  /\ LET made == Call("text_content", "error", i)
         error_text == dom.errors[i + 1] IN
     \/ /\ calls' = Append(calls, made)
        /\ out' = IF Truthy(error_text)
                  THEN Append(out, Line("error_text", i, 0, "", error_text))
                  ELSE out
        /\ i' = i + 1
        /\ UNCHANGED <<pc, menu_idx, page_idx, dom, count, text, exc,
                       propagated, detail_route, browser>>
     \/ /\ Fail(<<made>>, <<>>)
        /\ UNCHANGED page_idx

(* line 106: the range is exhausted *)
ErrorsDone ==
  /\ pc = "error_text"
  /\ i >= ReportedErrors(error_count)
  /\ pc' = "pages"
  /\ UNCHANGED <<menu_idx, page_idx, i, dom, count, text, exc, propagated,
                 calls, out, detail_route, browser>>

(* Variant: the handler prints nothing *)
Except_Silent ==
  /\ pc = "except"
  /\ pc' = "finally"
  /\ UNCHANGED <<menu_idx, page_idx, i, dom, count, text, exc, propagated,
                 calls, out, detail_route, browser>>

(* lines 111-112: except Exception as e: one line with the detail *)
Except ==
  /\ pc = "except"
  /\ out' = Append(out, Line("failure", 0, 0, exc, None))
  /\ pc' = "finally"
  /\ UNCHANGED <<menu_idx, page_idx, i, dom, count, text, exc, propagated,
                 calls, detail_route, browser>>

(* lines 114-116: finally: browser.close() and the completion marker.      *)
(* close() is taken to return: the failures explored are those of the      *)
(* calls of lines 9-109.                                                   *)
Finally ==
  /\ pc = "finally"
  /\ calls' = Append(calls, Call("close", "browser", 0))
  /\ browser' = "closed"
  /\ out' = Append(out, Line("complete", 0, 0, "", None))
  /\ pc' = "exit"
  /\ UNCHANGED <<menu_idx, page_idx, i, dom, count, text, exc, propagated,
                 detail_route>>

Next ==
  \/ Launch \/ NewContext \/ NewPage \/ GotoRoot \/ Sidebar
  \/ MenuItem \/ MenuDone \/ Click \/ Submenu \/ SubmenuItems
  \/ Goto \/ PagesDone \/ Title \/ TitleText \/ Interactive
  \/ ElementVisible \/ ElementsDone \/ Label \/ Tag
  \/ Errors \/ ErrorText \/ ErrorsDone \/ Except \/ Finally

Spec == Init /\ [][Next]_vars

-----------------------------------------------------------------------------
(* Reading the logs *)
Calls(op) == SelectSeq(calls, LAMBDA c : c.op = op)
CallsTo(op, target) == SelectSeq(calls, LAMBDA c : c.op = op /\ c.target = target)
CallsIn(op, target, r) ==
  SelectSeq(calls, LAMBDA c : c.op = op /\ c.target = target /\ c.route = r)
Lines(k) == SelectSeq(out, LAMBDA l : l.k = k)
LinesIn(k, r) == SelectSeq(out, LAMBDA l : l.k = k /\ l.route = r)
Targets(cs) == [k \in 1..Len(cs) |-> cs[k].target]
Indexes(ls) == [k \in 1..Len(ls) |-> ls[k].idx]
Positions(op, target) ==
  { k \in 1..Len(calls) : calls[k].op = op /\ calls[k].target = target }

MenuIds == { menu_items[k] : k \in 1..Len(menu_items) }
MenuQueries ==
  SelectSeq(calls, LAMBDA c : c.op = "is_visible" /\ c.target \in MenuIds)

Finished == pc = "exit"
NoFailure == exc = "none"
(* The try block was entered: the root navigation was attempted *)
InTry == Len(CallsTo("goto", "/")) > 0
SidebarSeen == Len(Lines("sidebar_shown")) > 0
ProjectsSeen ==
  \E k \in 1..Len(out) : out[k].k = "menu_found" /\ out[k].id = SubmenuEntry

(* The label as the specification words it *)
ClaimLabel(el) ==
  IF ~el.text.isNone /\ el.text.s # <<>> THEN el.text.s
  ELSE IF ~el.aria.isNone /\ el.aria.s # <<>> THEN el.aria.s
  ELSE IF ~el.placeholder.isNone /\ el.placeholder.s # <<>>
       THEN el.placeholder.s
  ELSE Unknown

IsPrefix(p, s) == Len(p) <= Len(s) /\ p = SubSeq(s, 1, Len(p))

(* The increasing sequence of the members of the set S of naturals < n *)
RECURSIVE Ascending(_, _)
Ascending(S, n) ==
  IF n = 0 THEN <<>>
  ELSE Ascending(S, n - 1) \o (IF (n - 1) \in S THEN <<n - 1>> ELSE <<>>)

-----------------------------------------------------------------------------
(* C1: on every path that starts after the browser was launched (normal    *)
(* completion, or an exception of any later driver call, new_context and   *)
(* new_page included), browser.close() is called exactly once before the   *)
(* function ends.                                                          *)
C1_ClosedExactlyOnce ==
  /\ Len(Calls("close")) <= 1
  /\ (Finished /\ browser # "none") => Len(Calls("close")) = 1

(* C2: a failure raised by a step of the run is caught once: exactly one   *)
(* failure line with its detail, no further call or line after it but the  *)
(* close and the completion marker, which is printed last, and the failure *)
(* does not leave the function.                                            *)
C2_FailureCaughtOnce ==
  (Finished /\ InTry /\ ~NoFailure) =>
     /\ ~propagated
     /\ Len(Lines("failure")) = 1
     /\ Len(out) >= 2
     /\ out[Len(out)].k = "complete"
     /\ out[Len(out) - 1].k = "failure"
     /\ out[Len(out) - 1].id = exc
     /\ Len(Lines("complete")) = 1
     /\ Len(calls) >= 2
     /\ calls[Len(calls)].op = "close"
     /\ calls[Len(calls) - 1].raised
     /\ { k \in 1..Len(calls) : calls[k].raised } = { Len(calls) - 1 }
     /\ Len(Calls("close")) = 1
     /\ browser = "closed"

C2_Witness ==
  /\ Finished /\ InTry /\ ~NoFailure
  /\ calls[Len(calls) - 1].op = "text_content"
  /\ page_idx = 3

(* C3 as stated: in every run without a failure each of the five menu      *)
(* entries is queried exactly once, in list order, and the submenu flow    *)
(* (click, pause, submenu query) runs exactly once, for the projects entry *)
(* and right after its query, whatever the visibility results are.         *)
SubmenuFlow ==
  SelectSeq(calls, LAMBDA c : c.route = 0 /\
              (c.op \in {"click", "sleep"} \/ c.target = "sidebar-submenu"))

SubmenuFlowOnceAfterProjects ==
  /\ [k \in 1..Len(SubmenuFlow) |-> SubmenuFlow[k].op]
       = <<"click", "sleep", "is_visible">>
  /\ \A k \in 1..Len(calls) :
       calls[k].op = "click" =>
         /\ calls[k].target = SubmenuEntry
         /\ k > 1 /\ calls[k - 1].op = "is_visible"
         /\ calls[k - 1].target = SubmenuEntry
         /\ k + 2 <= Len(calls)
         /\ calls[k + 1].op = "sleep"
         /\ calls[k + 2].target = "sidebar-submenu"

C3_Original ==
  (Finished /\ InTry /\ NoFailure) =>
     /\ Targets(MenuQueries) = menu_items
     /\ SubmenuFlowOnceAfterProjects

(* C3 amended: in every run without a failure, the five menu entries are   *)
(* queried exactly once each, in list order, when the sidebar is reported  *)
(* visible, and not at all otherwise; the submenu flow runs exactly once,  *)
(* for the projects entry and right after its query, when the sidebar and  *)
(* the projects entry are reported visible, and not at all otherwise.      *)
C3_MenusQueriedWhenSidebarVisible ==
  (Finished /\ InTry /\ NoFailure) =>
     /\ Targets(MenuQueries) = IF SidebarSeen THEN menu_items ELSE <<>>
     /\ IF SidebarSeen /\ ProjectsSeen
        THEN SubmenuFlowOnceAfterProjects
        ELSE SubmenuFlow = <<>>

C3_Witness ==
  /\ Finished /\ InTry /\ NoFailure
  /\ SidebarSeen /\ ~ProjectsSeen
  /\ Len(MenuQueries) = Len(menu_items)

(* C4: when no driver call raises, whatever the checks find, the script    *)
(* navigates to the root and then to the five routes once each in list     *)
(* order, does the same three queries (heading, interactive count, error   *)
(* count) on each, then closes the browser and prints the completion       *)
(* marker; no exception arises unless a driver call raised, and the run    *)
(* never stops before its end.                                             *)
C4_AbsenceNeverAborts ==
  /\ exc \in {"none", "driver"}
  /\ (~Finished) => ENABLED Next
  /\ (exc = "driver") <=> (\E k \in 1..Len(calls) : calls[k].raised)
  /\ (Finished /\ NoFailure) =>
       /\ Targets(Calls("goto")) = <<"/">> \o pages_to_check
       /\ \A r \in 1..Len(pages_to_check) :
            /\ Len(CallsIn("goto", pages_to_check[r], r)) = 1
            /\ Len(CallsIn("is_visible", "h1", r)) = 1
            /\ Len(CallsIn("count", "interactive", r)) = 1
            /\ Len(CallsIn("count", "error", r)) = 1
            /\ Len(LinesIn("page_header", r)) = 1
            /\ Len(LinesIn("element_count", r)) = 1
       /\ calls[Len(calls)].op = "close"
       /\ out[Len(out)].k = "complete"
       /\ ~propagated

C4_Witness ==
  /\ Finished /\ NoFailure
  /\ ~SidebarSeen
  /\ Len(LinesIn("no_elements", 1)) = 1
  /\ Len(LinesIn("title_missing", 1)) = 1
  /\ Len(LinesIn("element", 2)) = 1

(* C5: once the submenu is reported visible and its items are counted, the *)
(* count line is printed with that count, and the empty flag is printed    *)
(* if and only if the count is zero; a run without failure that reports    *)
(* the submenu visible has counted the items.                              *)
C5_EmptyFlagIffZero ==
  /\ (count = -1) =>
       Len(Lines("submenu_count")) = 0 /\ Len(Lines("submenu_empty")) = 0
  /\ (count # -1) =>
       /\ Len(Lines("submenu_shown")) = 1
       /\ Len(Lines("submenu_count")) = 1
       /\ Lines("submenu_count")[1].n = count
       /\ Len(Lines("submenu_empty")) = (IF count = 0 THEN 1 ELSE 0)
  /\ (Finished /\ NoFailure /\ Len(Lines("submenu_shown")) > 0) => count # -1

C5_Witness ==
  /\ count = 0
  /\ Len(Lines("submenu_empty")) = 1
  /\ Finished /\ NoFailure

(* C6: for every route whose interactive elements were counted, the count *)
(* line is printed once with that count, and the failure flag is printed   *)
(* for that route if and only if the count is zero; a route with no        *)
(* interactive and no error elements gets the count 0 line, the flag and   *)
(* no error line.                                                          *)
Counted(r) ==
  \E k \in 1..Len(calls) :
     /\ calls[k].op = "count" /\ calls[k].target = "interactive"
     /\ calls[k].route = r /\ ~calls[k].raised

C6_NoElementsFlagIffZero ==
  /\ \A r \in 1..Len(pages_to_check) :
       LET cl == LinesIn("element_count", r)
           fl == LinesIn("no_elements", r) IN
       /\ Len(cl) = (IF Counted(r) THEN 1 ELSE 0)
       /\ Len(fl) = (IF Counted(r) /\ cl[1].n = 0 THEN 1 ELSE 0)
       /\ (r = page_idx /\ Counted(r)) => cl[1].n = element_count
  /\ (pc = "pages" /\ page_idx >= 1 /\ element_count = 0 /\ error_count = 0) =>
       /\ LinesIn("element_count", page_idx)[1].n = 0
       /\ Len(LinesIn("no_elements", page_idx)) = 1
       /\ LinesIn("error_header", page_idx) = <<>>
       /\ LinesIn("error_text", page_idx) = <<>>

C6_Witness ==
  /\ pc = "pages" /\ page_idx = 2
  /\ element_count = 0 /\ error_count = 0
  /\ Len(LinesIn("no_elements", 2)) = 1
  /\ Len(LinesIn("element_count", 1)) = 1
  /\ LinesIn("no_elements", 1) = <<>>

(* C7 as stated: when the element loop of a route with n interactive       *)
(* elements is over, one line was printed for each of the first min(5, n)  *)
(* elements, in index order, none skipped, with the element's tag name and *)
(* its label: the text content if not empty, else the aria-label if not    *)
(* empty, else the placeholder if not empty, else 'Unknown' (printed cut   *)
(* to 30 characters).                                                      *)
ElementLinesMatch ==
  \A k \in 1..Len(LinesIn("element", page_idx)) :
     LET l == LinesIn("element", page_idx)[k]
         el == dom.elements[l.idx + 1] IN
     /\ l.id = el.tag
     /\ l.s = Str(Take(ClaimLabel(el), 30))

C7_Original ==
  (pc = "errors") =>
     /\ Indexes(LinesIn("element", page_idx))
          = Ascending(0..element_count, Min(5, element_count))
     /\ ElementLinesMatch

(* C7 amended: one line is printed for each of the first min(5, n)         *)
(* elements that is visible, in index order; the elements among them that  *)
(* are not visible are skipped; tag name and label as stated.              *)
VisibleElements == { j \in 0..(element_count - 1) : dom.elements[j + 1].visible }

C7_VisibleAmongFirstFive ==
  (pc = "errors") =>
     /\ Indexes(LinesIn("element", page_idx))
          = Ascending(VisibleElements, Min(5, element_count))
     /\ ElementLinesMatch

C7_Witness ==
  /\ pc = "errors"
  /\ element_count > 5
  /\ ~dom.elements[2].visible
  /\ Len(LinesIn("element", page_idx)) = 4
  /\ \E k \in 1..4 : LinesIn("element", page_idx)[k].s = Str(Unknown)

(* C8 as stated: when the checks of a route with m error elements are      *)
(* over, one text line was printed for each of the first min(3, m)         *)
(* matches, in index order, none for a later match, and no error line at   *)
(* all when m is zero.                                                     *)
ErrorLinesMatch ==
  /\ \A k \in 1..Len(LinesIn("error_text", page_idx)) :
       LET l == LinesIn("error_text", page_idx)[k] IN
       l.s = dom.errors[l.idx + 1]
  /\ Len(LinesIn("error_header", page_idx)) = (IF error_count > 0 THEN 1 ELSE 0)
  /\ (error_count = 0) => LinesIn("error_text", page_idx) = <<>>

C8_Original ==
  (pc = "pages" /\ page_idx >= 1) =>
     /\ Indexes(LinesIn("error_text", page_idx))
          = Ascending(0..error_count, Min(3, error_count))
     /\ ErrorLinesMatch

(* C8 amended: one text line is printed for each of the first min(3, m)    *)
(* matches whose text content is not empty (neither None nor ''), in index *)
(* order; a match with empty text gets no line; none for a later match;    *)
(* no error line at all when m is zero.                                    *)
ErrorsWithText ==
  { j \in 0..(error_count - 1) :
      ~dom.errors[j + 1].isNone /\ dom.errors[j + 1].s # <<>> }

C8_NonEmptyAmongFirstThree ==
  (pc = "pages" /\ page_idx >= 1) =>
     /\ Indexes(LinesIn("error_text", page_idx))
          = Ascending(ErrorsWithText, Min(3, error_count))
     /\ ErrorLinesMatch

C8_Witness ==
  /\ pc = "pages" /\ page_idx >= 1
  /\ error_count > 3
  /\ Len(LinesIn("error_text", page_idx)) = 1
  /\ dom.errors[4] = Str(Chars(5))

(* C9: the label part of every element line is a prefix of the resolved    *)
(* label of at most 30 characters, the whole label when that has 30        *)
(* characters or fewer, and computing it never raises: the label is never  *)
(* None, whatever the text content, aria-label and placeholder are.        *)
C9_LabelTruncated ==
  /\ exc # "TypeError"
  /\ (pc = "tag") => ~text.isNone
  /\ \A k \in 1..Len(out) :
       (out[k].k = "element" /\ out[k].route = page_idx) =>
          LET label == ClaimLabel(dom.elements[out[k].idx + 1])
              shown == out[k].s IN
          /\ ~shown.isNone
          /\ Len(shown.s) <= 30
          /\ IsPrefix(shown.s, label)
          /\ (Len(label) <= 30) => shown.s = label

C9_Witness ==
  /\ pc = "errors"
  /\ \E k \in 1..Len(out) :
       /\ out[k].k = "element" /\ out[k].route = page_idx
       /\ Len(ClaimLabel(dom.elements[out[k].idx + 1])) > 30
       /\ Len(out[k].s.s) = 30
  /\ \E k \in 1..Len(out) :
       /\ out[k].k = "element" /\ out[k].route = page_idx
       /\ dom.elements[out[k].idx + 1].text = None
       /\ dom.elements[out[k].idx + 1].aria = None
       /\ dom.elements[out[k].idx + 1].placeholder = None

(* C10: the only click of a run is on the projects button, at most once,   *)
(* and only after the sidebar and the projects button were both reported   *)
(* visible; the submenu is queried only after that click; when the sidebar *)
(* or the projects button is not visible there is no click, no submenu     *)
(* query and no submenu line.                                              *)
C10_ClickOnlyWhenSeen ==
  /\ Len(Calls("click")) <= 1
  /\ \A k \in 1..Len(calls) :
       /\ (calls[k].op = "click") => calls[k].target = "menu-projects"
       /\ (calls[k].target = "sidebar-submenu") =>
            k > 2 /\ calls[k - 2].op = "click" /\ ~calls[k - 2].raised
  /\ (pc = "click" \/ Len(Calls("click")) > 0) => (SidebarSeen /\ ProjectsSeen)
  /\ (~SidebarSeen \/ ~ProjectsSeen) =>
       /\ Calls("click") = <<>>
       /\ CallsTo("is_visible", "sidebar-submenu") = <<>>
       /\ Lines("submenu_shown") = <<>>
       /\ Lines("submenu_hidden") = <<>>
       /\ Lines("clicking") = <<>>

C10_Witness ==
  /\ Finished /\ NoFailure
  /\ Len(Calls("click")) = 1
  /\ Len(Lines("submenu_hidden")) = 1
  /\ Len(Lines("menu_missing")) = 2

=============================================================================
